---- MODULE Spec2Model ----
(***************************************************************************)
(* Model of src/framework/index.ts: createApp (schema module loading,      *)
(* artifact flags, context module resolution) and the startServer closure  *)
(* it returns.  JavaScript values are written as their String() rendering, *)
(* so the number 5000 is "5000", the boolean true is "true" and the value  *)
(* undefined is "undefined"; fs.exists' result false is "false".  A         *)
(* character outside ASCII is written as its JavaScript escape, so the     *)
(* pumpkin of the default banner is \u{1F383}.                             *)
(***************************************************************************)
EXTENDS Integers, Sequences, FiniteSets, TLC

\* ---------------------------------------------------------------- bounds
MaxCalls == 2
MaxStarts == 1
MaxChanges == 1
MaxEnvChanges == 1
MaxDirect == 1
MaxOps == 3

\* ----------------------------------------------------------- JS helpers
Undefined == "undefined"

Cwd == "/project"

\* fs.path(p): the path resolved against the working directory
FsPath(p) == Cwd \o "/" \o p

\* path.join(a, '/index.d.ts'): a has no trailing separator
PathJoin(a, b) == a \o b

\* {...a, ...b}: every own key of b, undefined-valued ones included, wins
Spread(a, b) ==
  [k \in (DOMAIN a) \cup (DOMAIN b) |-> IF k \in DOMAIN b THEN b[k] ELSE a[k]]

\* ------------------------------------------------- conventional locations
SchemaDir == "server/schema"
RootSchema == "schema.ts"
ServerSchema == "server/schema.ts"
ContextPath == "server/context.ts"
PumpkinsContext == ".pumpkins/context.ts"
PhotonPackage == "node_modules/@generated/photon"

ProbedPaths ==
  {FsPath(SchemaDir), FsPath(RootSchema), FsPath(ServerSchema), FsPath(ContextPath)}

\* results of fs.exists: false | 'file' | 'dir' | 'other'
Kinds == {"false", "file", "dir", "other"}

\* ------------------------------------------- entries below server/schema
Entry(parent, stem, ext, type) ==
  [parent |-> parent, stem |-> stem, ext |-> ext, type |-> type]

EntryA == Entry("", "a", "ts", "file")
EntryNotes == Entry("", "notes", "md", "file")
EntrySub == Entry("", "sub", "ts", "dir")
EntryB == Entry("sub.ts/", "b", "ts", "file")

Universe == {EntryA, EntryNotes, EntrySub, EntryB}

\* path of an entry relative to the working directory, as fs.find reports it
EntryPath(e) == SchemaDir \o "/" \o e.parent \o e.stem \o "." \o e.ext

WellFormed(t) == (EntryB \in t) => (EntrySub \in t)

Trees == {t \in SUBSET Universe : WellFormed(t)}

\* ------------------------------------------------------------ environment
EnvNames == {"PUMPKINS_SHOULD_GENERATE_ARTIFACTS",
             "PUMPKINS_SHOULD_EXIT_AFTER_GENERATE_ARTIFACTS",
             "NODE_ENV"}

EnvValues(n) ==
  IF n = "NODE_ENV" THEN {Undefined, "", "development", "production"}
  ELSE {Undefined, "true", "false", "1"}

Envs == {e \in [EnvNames -> {Undefined, "", "true", "false", "1", "development", "production"}] :
           \A n \in EnvNames : e[n] \in EnvValues(n)}

EnvUnset == [n \in EnvNames |-> Undefined]

\* JS truthiness of an environment value (a string or undefined)
Truthy(v) == v # Undefined /\ v # ""

\* ---------------------------------------------------------- server options
defaultServerOptions ==
  [port |-> "4000", startMessage |-> "default",
   introspection |-> "true", playground |-> "true"]

OptionKeys == {"port", "startMessage", "playground", "introspection"}

OptionValues(k) ==
  IF k = "port" THEN {"5000", Undefined}
  ELSE IF k = "startMessage" THEN {"custom", Undefined}
  ELSE {"true", "false", Undefined}

Configs ==
  UNION {{c \in [D -> {"5000", "custom", "true", "false", Undefined}] :
            \A k \in D : c[k] \in OptionValues(k)} : D \in SUBSET OptionKeys}

EmptyConfig == [k \in {} |-> Undefined]

\* the startMessage callback applied to a port: the default banner of
\* defaultServerOptions, or the caller's own function
CallStartMessage(f, port) ==
  IF f = "default"
    THEN "\\u{1F383}  Server ready at http://localhost:" \o port \o "/"
    ELSE "custom:" \o port

\* ------------------------------------------------------------------ state
VARIABLES
  fsKind,       \* fs.exists of each probed path
  tree,         \* entries below server/schema (empty unless it is a directory)
  cacheFile,    \* content of .pumpkins/context.ts: <<>> or <<source>>
  cacheWrites,  \* number of fs.write calls made so far
  env,          \* process.env
  moduleCache,  \* require.cache: modules already evaluated
  registry,     \* process-wide schema registry, in registration order
  apps,         \* objects returned by createApp
  lastCall,     \* what the most recent createApp call did
  lastStart,    \* what the most recent startServer call did
  pending,      \* listen requests whose outcome the event loop has yet to deliver
  bound,        \* ports this process listens on
  console,      \* lines written by console.log
  lastListen,   \* outcome of the most recent listen request
  uncaught,     \* the uncaught error that ended the process, "" while it runs
  calls, starts, changes, directs

vars == <<fsKind, tree, cacheFile, cacheWrites, env, moduleCache, registry,
          apps, lastCall, lastStart, pending, bound, console, lastListen,
          uncaught, calls, starts, changes, directs>>

\* calls of the program's operations made so far
Ops == calls + starts + directs

Exists(p) == fsKind[p]

\* fs.find without recursion: only the entries directly below server/schema
FindShallow(t) == {e \in t : e.type = "file" /\ e.ext = "ts" /\ e.parent = ""}

\* fs.find(server/schema, {files, !directories, recursive, matching '*.ts'})
Find(t) == {e \in t : e.type = "file" /\ e.ext = "ts"}

\* the discovery orders the file system may produce for a set of entries
Orderings(S) ==
  {s \in [1..Cardinality(S) -> S] : \A i, j \in 1..Cardinality(S) : s[i] = s[j] => i = j}

\* a call of one of the type builders (by a module being evaluated, or by
\* any other code through the globals or the exports): the definition is
\* added to the process-wide registry; who is the caller
Register(reg, who) == Append(reg, who)

\* the ways the evaluation of a module can end: it completes, it throws
\* before calling a type builder (a missing import, a syntax error), or it
\* throws after calling one
Evaluations == {"completes", "throwsBefore", "throwsAfter"}

\* the file-system call of createApp that fails with an I/O error, if any:
\* a probe or the find of the schema loader, the probe of the context path,
\* or the write of the default context
FsFailures == {"none", "loader", "context", "write"}

\* require(path): evaluate the module unless require.cache already has it;
\* registers tells whether the module calls the type builders when
\* evaluated, how is the way its evaluation ends. A module whose evaluation
\* throws is not kept in require.cache, and the exception leaves require
Require(path, registers, how, st) ==
  IF path \in st.cache THEN st
  ELSE LET reg == IF registers /\ how # "throwsBefore"
                    THEN Register(st.registry, path)
                    ELSE st.registry
       IN IF how = "completes"
            THEN [st EXCEPT !.cache = @ \cup {path}, !.registry = reg]
            ELSE [st EXCEPT !.registry = reg, !.threw = TRUE]

\* the forEach over the schema modules: registering holds those whose
\* evaluation calls a type builder; the failAt-th require (if any) is of a
\* module whose evaluation ends as how says, and an exception ends the loop;
\* st.required lists the require calls made
RECURSIVE RequireAll(_, _, _, _, _)
RequireAll(paths, registering, failAt, how, st) ==
  IF paths = <<>> \/ st.threw THEN st
  ELSE RequireAll(Tail(paths), registering, failAt - 1, how,
         Require(Head(paths), Head(paths) \in registering,
                 IF failAt = 1 THEN how ELSE "completes",
                 [st EXCEPT !.required = Append(@, Head(paths))]))

\* the loader probing schema.ts before the server/schema directory
LoadSchemaModulesRootFirst(order) ==
  IF Exists(FsPath(RootSchema)) = "file"
    THEN <<FsPath(RootSchema)>>
  ELSE IF Exists(FsPath(SchemaDir)) = "dir"
    THEN [i \in DOMAIN order |-> FsPath(EntryPath(order[i]))]
  ELSE IF Exists(FsPath(ServerSchema)) = "file"
    THEN <<FsPath(ServerSchema)>>
  ELSE <<>>

\* the loader accepting any entry at server/schema.ts, whatever its type
LoadSchemaModulesAnyEntry(order) ==
  IF Exists(FsPath(SchemaDir)) = "dir"
    THEN [i \in DOMAIN order |-> FsPath(EntryPath(order[i]))]
  ELSE IF Exists(FsPath(RootSchema)) = "file"
    THEN <<FsPath(RootSchema)>>
  ELSE IF Exists(FsPath(ServerSchema)) # "false"
    THEN <<FsPath(ServerSchema)>>
  ELSE <<>>

\* the schema modules createApp requires, in order
LoadSchemaModules(order) ==
  IF Exists(FsPath(SchemaDir)) = "dir"
    THEN [i \in DOMAIN order |-> FsPath(EntryPath(order[i]))]
  ELSE IF Exists(FsPath(RootSchema)) = "file"
    THEN <<FsPath(RootSchema)>>
  ELSE IF Exists(FsPath(ServerSchema)) = "file"
    THEN <<FsPath(ServerSchema)>>
  ELSE <<>>

\* the generate flag without its 'false' branch
ShouldGenerateArtifactsNoFalse(e) ==
  IF e["PUMPKINS_SHOULD_GENERATE_ARTIFACTS"] = "true" THEN TRUE
  ELSE (~Truthy(e["NODE_ENV"])) \/ e["NODE_ENV"] = "development"

ShouldGenerateArtifacts(e) ==
  IF e["PUMPKINS_SHOULD_GENERATE_ARTIFACTS"] = "true" THEN TRUE
  ELSE IF e["PUMPKINS_SHOULD_GENERATE_ARTIFACTS"] = "false" THEN FALSE
  ELSE (~Truthy(e["NODE_ENV"])) \/ e["NODE_ENV"] = "development"

ShouldExitAfterGenerateArtifacts(e) ==
  IF e["PUMPKINS_SHOULD_EXIT_AFTER_GENERATE_ARTIFACTS"] = "true" THEN TRUE ELSE FALSE

\* the text written to .pumpkins/context.ts
DefaultContextSource(photon) ==
  [importFrom |-> photon, exports |-> {"Context", "createContext"}]

\* the write skipped when the file already holds the same source
WriteDefaultContextCached(file, writes, photon) ==
  IF file = <<DefaultContextSource(photon)>>
    THEN [file |-> file, writes |-> writes]
    ELSE [file |-> <<DefaultContextSource(photon)>>, writes |-> writes + 1]

\* fs.write(.pumpkins/context.ts, source): the file is (re)written
WriteDefaultContext(file, writes, photon) ==
  [file |-> <<DefaultContextSource(photon)>>, writes |-> writes + 1]

\* a directory at the context path taken for a missing module
ResolveContextDirAsDefault(has) ==
  IF has = "file" THEN "user" ELSE "default"

\* a directory at the context path taken for the user's module
ResolveContextDirAsUser(has) ==
  IF has = "file" \/ has = "dir" THEN "user" ELSE "default"

\* which context module the call ends up with, from fs.exists(server/context.ts)
ResolveContext(has) ==
  IF has = "file" THEN "user"
  ELSE IF has = "dir" THEN "throw"
  ELSE "default"

NoCall ==
  [n |-> 0, outcome |-> "none", thrownBy |-> "", required |-> <<>>,
   registering |-> {}, cacheBefore |-> {}, wrote |-> FALSE,
   contextLoaded |-> FALSE, contextModulePath |-> "",
   fsAt |-> [p \in ProbedPaths |-> "false"], treeAt |-> {},
   registryBefore |-> <<>>, registryAfterLoad |-> <<>>, writesBefore |-> 0]

NoStart ==
  [n |-> 0, app |-> 0, config |-> EmptyConfig, merged |-> defaultServerOptions,
   listenPort |-> "", playground |-> "", introspection |-> "",
   contextFrom |-> "",
   build |-> [types |-> <<>>, contextSource |-> "", photonSource |-> "",
              shouldGenerateArtifacts |-> FALSE,
              shouldExitAfterGenerateArtifacts |-> FALSE,
              pluginShouldGenerateArtifacts |-> FALSE],
   envAt |-> EnvUnset]

NoListen ==
  [n |-> 0, config |-> EmptyConfig, port |-> "", outcome |-> "none", logged |-> ""]

\* --------------------------------------------------------------- createApp
\* the most schema modules one call can require
MaxModules == Cardinality(Find(Universe))

\* the position of require(contextModulePath) among the requires of a call
ContextRequire == MaxModules + 1

\* what can go wrong in one call: at most one thing, since the first
\* exception ends the call. io names the failing file-system call; at is the
\* position, among the requires, of the module whose evaluation throws (0:
\* none) and how the way that evaluation ends
Failures ==
  {f \in [io : FsFailures, at : 0..ContextRequire, how : Evaluations] :
     /\ f.io # "none" => f.at = 0
     /\ f.at = 0 <=> f.how = "completes"}

\* whether failure f can happen in a call that requires the schema modules
\* list: only the default context is written, only a module that
\* require.cache does not hold is evaluated and so can throw, and only a
\* module that calls a type builder can throw after having called it
CanFail(f, list, registering, userRegisters) ==
  LET user == ResolveContext(Exists(FsPath(ContextPath))) = "user"
      context == IF user THEN FsPath(ContextPath) ELSE FsPath(PumpkinsContext)
  IN /\ f.io = "write" => ResolveContext(Exists(FsPath(ContextPath))) = "default"
     /\ f.at \in {0, ContextRequire} \cup DOMAIN list
     /\ f.at \in DOMAIN list =>
          /\ list[f.at] \notin moduleCache
          /\ f.how = "throwsAfter" => list[f.at] \in registering
     /\ f.at = ContextRequire =>
          /\ ResolveContext(Exists(FsPath(ContextPath))) # "throw"
          /\ context \notin moduleCache
          /\ f.how = "throwsAfter" => (user /\ userRegisters)

\* one call of createApp. Nothing in it is guarded, so it leaves by return,
\* by the thrown configuration error, by the I/O error of a file-system call
\* or by the exception of a module whose evaluation throws (f tells which
\* of these, if any, happens). registering holds the schema modules, among those
\* the call is about to evaluate, that call a type builder; userRegisters
\* tells whether the user's context module does
CreateApp ==
  /\ uncaught = ""
  /\ calls < MaxCalls
  /\ Ops < MaxOps
  /\ \E order \in Orderings(Find(tree)) :
      \E registering \in SUBSET ({LoadSchemaModules(order)[i] :
                                   i \in DOMAIN LoadSchemaModules(order)} \ moduleCache),
         userRegisters \in IF ResolveContext(Exists(FsPath(ContextPath))) = "user"
                                  /\ FsPath(ContextPath) \notin moduleCache
                             THEN BOOLEAN ELSE {FALSE} :
      \E f \in {g \in Failures :
                  CanFail(g, LoadSchemaModules(order), registering, userRegisters)} :
       LET io == f.io
           failAt == f.at
           how == f.how
           start == [cache |-> moduleCache, registry |-> registry,
                     threw |-> FALSE, required |-> <<>>]
           loaded == IF io = "loader" THEN start
                     ELSE RequireAll(LoadSchemaModules(order), registering,
                                     failAt, how, start)
           gen == ShouldGenerateArtifacts(env)
           exit == ShouldExitAfterGenerateArtifacts(env)
           photon == FsPath(PhotonPackage)
           optional == FsPath(ContextPath)
           has == Exists(optional)
           call == [n |-> calls + 1, outcome |-> "threw", thrownBy |-> "",
                    required |-> loaded.required,
                    registering |-> IF io = "loader" THEN {} ELSE registering,
                    cacheBefore |-> moduleCache,
                    wrote |-> FALSE, contextLoaded |-> FALSE,
                    contextModulePath |-> "", fsAt |-> fsKind, treeAt |-> tree,
                    registryBefore |-> registry,
                    registryAfterLoad |-> loaded.registry,
                    writesBefore |-> cacheWrites]
           \* the exits that precede the write of the default context
           early == IF io = "loader" THEN "fsLoader"
                    ELSE IF loaded.threw THEN "schemaModule"
                    ELSE IF io = "context" THEN "fsContext"
                    ELSE IF ResolveContext(has) = "throw" THEN "contextDir"
                    ELSE IF ResolveContext(has) = "default" /\ io = "write"
                      THEN "fsWrite"
                    ELSE ""
       IN
         /\ calls' = calls + 1
         /\ IF early # ""
              THEN
                /\ moduleCache' = loaded.cache
                /\ registry' = loaded.registry
                /\ lastCall' = [call EXCEPT !.thrownBy = early]
                /\ UNCHANGED <<apps, cacheFile, cacheWrites>>
              ELSE
                LET user == (ResolveContext(has) = "user")
                    path == IF user THEN optional ELSE FsPath(PumpkinsContext)
                    written == WriteDefaultContext(cacheFile, cacheWrites, photon)
                    \* the written default source registers nothing; what a
                    \* user's context module does when evaluated is its own
                    done == Require(path, user /\ userRegisters,
                                    IF failAt = ContextRequire THEN how
                                    ELSE "completes", loaded)
                IN
                  /\ cacheFile' = IF user THEN cacheFile ELSE written.file
                  /\ cacheWrites' = IF user THEN cacheWrites ELSE written.writes
                  /\ moduleCache' = done.cache
                  /\ registry' = done.registry
                  /\ apps' = IF done.threw THEN apps ELSE Append(apps,
                       [contextModulePath |-> path,
                        generatedPhotonPackagePath |-> photon,
                        shouldGenerateArtifacts |-> gen,
                        shouldExitAfterGenerateArtifacts |-> exit,
                        call |-> calls + 1,
                        registryAtReturn |-> done.registry,
                        envAtCreate |-> env,
                        fsAtCreate |-> fsKind])
                  /\ lastCall' = [call EXCEPT
                       !.wrote = ~user,
                       !.contextLoaded = ~done.threw,
                       !.contextModulePath = path,
                       !.outcome = IF done.threw THEN "threw" ELSE "returned",
                       !.thrownBy = IF done.threw THEN "contextModule" ELSE ""]
  /\ UNCHANGED <<fsKind, tree, env, lastStart, pending, bound, console,
                 lastListen, uncaught, starts, changes, directs>>

\* a type builder called outside the schema modules, through the globals
\* or the exports
CallBuilder ==
  /\ uncaught = ""
  /\ directs < MaxDirect
  /\ Ops < MaxOps
  /\ registry' = Register(registry, "direct")
  /\ directs' = directs + 1
  /\ UNCHANGED <<fsKind, tree, cacheFile, cacheWrites, env, moduleCache, apps,
                 lastCall, lastStart, pending, bound, console, lastListen,
                 uncaught, calls, starts, changes>>

\* ------------------------------------------------------------- startServer
\* makeSchema building from an empty type list instead of the registry
MakeSchemaEmpty(app) ==
  [types |-> <<>>,
   contextSource |-> app.contextModulePath,
   photonSource |-> PathJoin(app.generatedPhotonPackagePath, "/index.d.ts"),
   shouldGenerateArtifacts |-> app.shouldGenerateArtifacts,
   shouldExitAfterGenerateArtifacts |-> app.shouldExitAfterGenerateArtifacts,
   pluginShouldGenerateArtifacts |-> app.shouldGenerateArtifacts]

\* makeSchema handed flags derived when startServer runs
MakeSchemaLateFlags(app) ==
  [types |-> registry,
   contextSource |-> app.contextModulePath,
   photonSource |-> PathJoin(app.generatedPhotonPackagePath, "/index.d.ts"),
   shouldGenerateArtifacts |-> ShouldGenerateArtifacts(env),
   shouldExitAfterGenerateArtifacts |-> ShouldExitAfterGenerateArtifacts(env),
   pluginShouldGenerateArtifacts |-> ShouldGenerateArtifacts(env)]

\* makeSchema(...): the registry is read, the flags and sources are handed in
MakeSchema(app) ==
  [types |-> registry,
   contextSource |-> app.contextModulePath,
   photonSource |-> PathJoin(app.generatedPhotonPackagePath, "/index.d.ts"),
   shouldGenerateArtifacts |-> app.shouldGenerateArtifacts,
   shouldExitAfterGenerateArtifacts |-> app.shouldExitAfterGenerateArtifacts,
   pluginShouldGenerateArtifacts |-> app.shouldGenerateArtifacts]

\* startServer; arg is the argument list: no argument (or undefined) selects
\* {}. app.listen(...) binds the port before it returns: the server then
\* listens, or the port is taken and the failure is reported later; an
\* undefined port makes the system pick a free one
StartServer(i, arg) ==
  /\ uncaught = ""
  /\ starts < MaxStarts
  /\ Ops < MaxOps
  /\ i \in DOMAIN apps
  /\ LET app == apps[i]
         config == IF arg.given THEN arg.value ELSE EmptyConfig
         mergedConfig == Spread(defaultServerOptions, config)
         taken == mergedConfig.port # Undefined /\ mergedConfig.port \in bound
     IN
       /\ bound' = IF taken \/ mergedConfig.port = Undefined THEN bound
                   ELSE bound \cup {mergedConfig.port}
       /\ pending' = Append(pending,
            [n |-> starts + 1, config |-> config, port |-> mergedConfig.port,
             startMessage |-> mergedConfig.startMessage, failed |-> taken])
       /\ lastStart' =
          [n |-> starts + 1, app |-> i, config |-> config, merged |-> mergedConfig,
           listenPort |-> mergedConfig.port,
           playground |-> mergedConfig.playground,
           introspection |-> mergedConfig.introspection,
           contextFrom |-> app.contextModulePath,
           build |-> MakeSchema(app),
           envAt |-> env]
  /\ starts' = starts + 1
  /\ UNCHANGED <<fsKind, tree, cacheFile, cacheWrites, env, moduleCache,
                 registry, apps, lastCall, console, lastListen,
                 uncaught, calls, changes, directs>>

\* the event loop delivers the outcome of the oldest app.listen: the 'error'
\* event of a failed bind, which nobody handles, or the 'listening' event,
\* on which the callback of app.listen logs the start message
ListenCallback ==
  /\ uncaught = ""
  /\ pending # <<>>
  /\ LET l == Head(pending)
         done == [n |-> l.n, config |-> l.config, port |-> l.port,
                  outcome |-> "listening", logged |-> ""]
     IN
       /\ pending' = Tail(pending)
       /\ IF l.failed
            THEN /\ uncaught' = "EADDRINUSE"
                 /\ lastListen' = [done EXCEPT !.outcome = "EADDRINUSE"]
                 /\ UNCHANGED console
            ELSE IF l.startMessage = Undefined
                   THEN \* mergedConfig.startMessage is not a function
                        /\ uncaught' = "TypeError"
                        /\ lastListen' = [done EXCEPT !.outcome = "TypeError"]
                        /\ UNCHANGED console
                   ELSE /\ console' = Append(console, CallStartMessage(l.startMessage, l.port))
                        /\ lastListen' = [done EXCEPT !.logged =
                                            CallStartMessage(l.startMessage, l.port)]
                        /\ UNCHANGED uncaught
  /\ UNCHANGED <<fsKind, tree, cacheFile, cacheWrites, env, moduleCache,
                 registry, apps, lastCall, lastStart, bound, calls, starts,
                 changes, directs>>

StartDefault == \E i \in DOMAIN apps : StartServer(i, [given |-> FALSE, value |-> EmptyConfig])

StartWith == \E i \in DOMAIN apps, c \in Configs : StartServer(i, [given |-> TRUE, value |-> c])

\* ------------------------------------------------- the program's surroundings
\* something outside the program creates, removes or replaces a probed path
SetEntry ==
  /\ changes < MaxChanges
  /\ \E p \in ProbedPaths, k \in Kinds :
       /\ k # fsKind[p]
       /\ fsKind' = [fsKind EXCEPT ![p] = k]
       /\ tree' = IF p = FsPath(SchemaDir) THEN {} ELSE tree
  /\ changes' = changes + 1
  /\ UNCHANGED <<cacheFile, cacheWrites, env, moduleCache, registry, apps,
                 lastCall, lastStart, pending, bound, console, lastListen,
                 uncaught, calls, starts, directs>>

\* something outside the program adds or removes an entry below server/schema
ToggleTree ==
  /\ changes < MaxChanges
  /\ fsKind[FsPath(SchemaDir)] = "dir"
  /\ \E e \in Universe :
       /\ tree' = IF e \in tree THEN tree \ {e} ELSE tree \cup {e}
       /\ WellFormed(tree')
  /\ changes' = changes + 1
  /\ UNCHANGED <<fsKind, cacheFile, cacheWrites, env, moduleCache, registry,
                 apps, lastCall, lastStart, pending, bound, console, lastListen,
                 uncaught, calls, starts, directs>>

\* something outside the program sets or unsets an environment variable
SetEnv ==
  /\ changes < MaxEnvChanges
  /\ \E n \in EnvNames :
       \E v \in EnvValues(n) :
         /\ v # env[n]
         /\ env' = [env EXCEPT ![n] = v]
  /\ changes' = changes + 1
  /\ UNCHANGED <<fsKind, tree, cacheFile, cacheWrites, moduleCache, registry,
                 apps, lastCall, lastStart, pending, bound, console, lastListen,
                 uncaught, calls, starts, directs>>

\* ---------------------------------------------------------- specifications
InitProcess ==
  /\ cacheFile = <<>>
  /\ cacheWrites = 0
  /\ moduleCache = {}
  /\ registry = <<>>
  /\ apps = <<>>
  /\ lastCall = NoCall
  /\ lastStart = NoStart
  /\ pending = <<>>
  /\ bound = {}
  /\ console = <<>>
  /\ lastListen = NoListen
  /\ uncaught = ""
  /\ calls = 0 /\ starts = 0 /\ changes = 0 /\ directs = 0

\* an empty project
InitEmpty ==
  /\ fsKind = [p \in ProbedPaths |-> "false"]
  /\ tree = {}
  /\ env = EnvUnset
  /\ InitProcess

\* a project that is empty, or has an empty server/schema directory, and
\* whose files then come and go
Init ==
  /\ fsKind \in {f \in [ProbedPaths -> {"false", "dir"}] :
                   \A p \in ProbedPaths \ {FsPath(SchemaDir)} : f[p] = "false"}
  /\ tree = {}
  /\ env = EnvUnset
  /\ InitProcess

Next ==
  CreateApp \/ CallBuilder \/ StartDefault \/ ListenCallback \/ SetEntry \/ ToggleTree

Spec == Init /\ [][Next]_vars

\* the project layouts: nothing, a file or a directory at each probed path,
\* except that next to a server/schema directory the two single schema
\* files are both missing or both present as files
Layouts ==
  {f \in [ProbedPaths -> {"false", "file", "dir"}] :
     f[FsPath(SchemaDir)] = "dir" =>
       /\ f[FsPath(RootSchema)] = f[FsPath(ServerSchema)]
       /\ f[FsPath(RootSchema)] \in {"false", "file"}}

\* any project layout, left alone while the program runs
InitLoad ==
  /\ fsKind \in Layouts
  /\ tree \in Trees
  /\ (fsKind[FsPath(SchemaDir)] # "dir") => tree = {}
  /\ env = EnvUnset
  /\ InitProcess

NextLoad == CreateApp \/ CallBuilder \/ StartDefault \/ ListenCallback

SpecLoad == InitLoad /\ [][NextLoad]_vars

\* any environment, left alone while the program runs
InitFlags ==
  /\ fsKind = [p \in ProbedPaths |-> "false"]
  /\ tree = {}
  /\ env \in Envs
  /\ InitProcess

NextFlags == CreateApp \/ CallBuilder \/ StartDefault \/ ListenCallback

SpecFlags == InitFlags /\ [][NextFlags]_vars

\* an empty project whose environment variables then change
NextEnv == CreateApp \/ CallBuilder \/ StartDefault \/ ListenCallback \/ SetEnv

SpecEnv == InitEmpty /\ [][NextEnv]_vars

\* any options record handed to startServer
NextServe ==
  CreateApp \/ CallBuilder \/ StartDefault \/ StartWith \/ ListenCallback

SpecServe == InitEmpty /\ [][NextServe]_vars

\* ------------------------------------------------------------------ claims
Range(s) == {s[i] : i \in DOMAIN s}

Count(s, x) == Cardinality({i \in DOMAIN s : s[i] = x})

IsPrefix(s, t) == Len(s) <= Len(t) /\ \A i \in DOMAIN s : s[i] = t[i]

DirPath == "/project/server/schema"
RootPath == "/project/schema.ts"
ServerPath == "/project/server/schema.ts"
UserContextPath == "/project/server/context.ts"
CachePath == "/project/.pumpkins/context.ts"
PhotonPath == "/project/node_modules/@generated/photon"

Called == lastCall.outcome # "none"

\* absolute paths of the '*.ts' files present below server/schema at the last call
MatchingAtCall ==
  {"/project/server/schema/" \o e.parent \o e.stem \o ".ts" :
     e \in {x \in lastCall.treeAt : x.type = "file" /\ x.ext = "ts"}}

\* the loader of the last call ran to its end: none of its file-system calls
\* failed and no schema module threw
LoaderCompleted == lastCall.thrownBy \notin {"fsLoader", "schemaModule"}

\* the last call got as far as choosing between the user's context module
\* and the default one
ReachedContext == lastCall.thrownBy \notin {"fsLoader", "schemaModule", "fsContext"}

\* C1 as stated: the loader takes the first source that matches, in the
\* order server/schema (directory), schema.ts (file), server/schema.ts (file),
\* and evaluates nothing from a later source: with the directory only
\* matching files below it are required (all of them when none throws),
\* otherwise only the one file, which is required; with no match it requires
\* nothing, leaves the registry as it found it (an empty one stays empty) and
\* the loader raises no error.
C1_FirstMatchWins ==
  Called =>
    LET d == lastCall.fsAt[DirPath] = "dir"
        r == lastCall.fsAt[RootPath] = "file"
        s == lastCall.fsAt[ServerPath] = "file"
    IN /\ d => /\ Range(lastCall.required) \subseteq MatchingAtCall
               /\ (lastCall.thrownBy # "schemaModule" =>
                     Range(lastCall.required) = MatchingAtCall)
       /\ (~d /\ r) => lastCall.required = <<RootPath>>
       /\ (~d /\ ~r /\ s) => lastCall.required = <<ServerPath>>
       /\ (~d /\ ~r /\ ~s) =>
            /\ lastCall.required = <<>>
            /\ lastCall.registryAfterLoad = lastCall.registryBefore
            /\ LoaderCompleted

\* C1 amended: the same, for a call in which no file-system call of the
\* loader fails; when one fails, the I/O error leaves createApp before any
\* schema module is required, whatever the layout, and the registry is as
\* the loader found it.
C1_FirstMatchWinsUnlessProbeFails ==
  Called =>
    LET d == lastCall.fsAt[DirPath] = "dir"
        r == lastCall.fsAt[RootPath] = "file"
        s == lastCall.fsAt[ServerPath] = "file"
    IN IF lastCall.thrownBy = "fsLoader"
         THEN /\ lastCall.required = <<>>
              /\ lastCall.registryAfterLoad = lastCall.registryBefore
              /\ lastCall.outcome = "threw"
         ELSE
           /\ d => /\ Range(lastCall.required) \subseteq MatchingAtCall
                   /\ (lastCall.thrownBy # "schemaModule" =>
                         Range(lastCall.required) = MatchingAtCall)
           /\ (~d /\ r) => lastCall.required = <<RootPath>>
           /\ (~d /\ ~r /\ s) => lastCall.required = <<ServerPath>>
           /\ (~d /\ ~r /\ ~s) =>
                /\ lastCall.required = <<>>
                /\ lastCall.registryAfterLoad = lastCall.registryBefore
                /\ lastCall.thrownBy # "schemaModule"

\* a call that found the directory, with files in it, while both single
\* schema files existed as well
C1_Witness ==
  /\ lastCall.outcome = "returned"
  /\ lastCall.fsAt[DirPath] = "dir"
  /\ lastCall.fsAt[RootPath] = "file"
  /\ lastCall.fsAt[ServerPath] = "file"
  /\ Len(lastCall.required) = 2

\* C6 as stated: with server/schema a directory, one call evaluates each
\* '*.ts' file below it (at any depth) exactly once: it requires each once
\* and nothing else, and each is loaded when the call ends, while no other
\* entry below the directory is evaluated.
C6_EachMatchingFileOnce ==
  (Called /\ lastCall.fsAt[DirPath] = "dir") =>
    /\ \A p \in MatchingAtCall :
         Count(lastCall.required, p) = 1 /\ p \in moduleCache
    /\ \A p \in Range(lastCall.required) : p \in MatchingAtCall
    /\ \A e \in Universe :
         (e.type = "dir" \/ e.ext # "ts") =>
           LET p == "/project/server/schema/" \o e.parent \o e.stem \o "." \o e.ext
           IN p \notin Range(lastCall.required) /\ p \notin Range(registry)
                /\ p \notin moduleCache

\* the registrations the loader of the last call added, in order
AddedByLoader ==
  SubSeq(lastCall.registryAfterLoad, Len(lastCall.registryBefore) + 1,
         Len(lastCall.registryAfterLoad))

\* C6 amended: with server/schema a directory, one call requires '*.ts'
\* files below it only, each at most once, and never a non-matching file or
\* a directory; the loader adds to the registry only what the files it
\* evaluates register themselves.  When the loader runs to its end, each
\* '*.ts' file (at any depth) is required exactly once and is loaded, and
\* each file the call evaluated that calls a type builder has registered
\* exactly once through this call.  An evaluation that throws ends the loop
\* with that file, which is not kept as loaded.
C6_EachMatchingFileOnceUnlessThrown ==
  (Called /\ lastCall.fsAt[DirPath] = "dir") =>
    /\ \A p \in MatchingAtCall : Count(lastCall.required, p) <= 1
    /\ \A p \in Range(lastCall.required) : p \in MatchingAtCall
    /\ IsPrefix(lastCall.registryBefore, lastCall.registryAfterLoad)
    /\ Range(AddedByLoader) \subseteq
         lastCall.registering \cap Range(lastCall.required)
    /\ \A p \in Range(AddedByLoader) : Count(AddedByLoader, p) = 1
    /\ LoaderCompleted =>
         /\ \A p \in MatchingAtCall :
              Count(lastCall.required, p) = 1 /\ p \in moduleCache
         /\ \A p \in lastCall.registering : Count(AddedByLoader, p) = 1
    /\ lastCall.thrownBy = "schemaModule" =>
         /\ lastCall.required # <<>>
         /\ lastCall.required[Len(lastCall.required)] \notin moduleCache
         /\ \A i \in 1..(Len(lastCall.required) - 1) :
              lastCall.required[i] \in moduleCache
    /\ \A e \in Universe :
         (e.type = "dir" \/ e.ext # "ts") =>
           LET p == "/project/server/schema/" \o e.parent \o e.stem \o "." \o e.ext
           IN p \notin Range(lastCall.required) /\ p \notin Range(registry)
                /\ p \notin moduleCache

\* a call over a directory holding a top-level file, a nested file, a
\* non-matching file and a directory whose name matches the filter: both
\* files evaluated, one of them registering, the other calling no builder
C6_Witness ==
  /\ lastCall.n = 1
  /\ lastCall.outcome = "returned"
  /\ lastCall.fsAt[DirPath] = "dir"
  /\ lastCall.treeAt = Universe
  /\ Len(lastCall.required) = 2
  /\ Cardinality(lastCall.registering) = 1
  /\ Len(lastCall.registryAfterLoad) = 1

\* C10 as stated: an entry of the wrong type at a schema path is skipped like
\* a missing one and never raises: server/schema as a non-directory falls
\* through to schema.ts and then server/schema.ts, a non-file at either of
\* those is skipped, and a call throws only when the context path is a
\* directory.
C10_WrongTypeIsAbsent ==
  Called =>
    /\ (lastCall.outcome = "threw") => (lastCall.fsAt[UserContextPath] = "dir")
    /\ lastCall.fsAt[DirPath] \in {"file", "other"} =>
         /\ Range(lastCall.required) \subseteq {RootPath, ServerPath}
         /\ lastCall.fsAt[RootPath] = "file" => lastCall.required = <<RootPath>>
    /\ (lastCall.fsAt[DirPath] # "dir" /\ lastCall.fsAt[RootPath] \in {"dir", "other"}) =>
         /\ RootPath \notin Range(lastCall.required)
         /\ lastCall.fsAt[ServerPath] = "file" => lastCall.required = <<ServerPath>>
    /\ (lastCall.fsAt[DirPath] # "dir" /\ lastCall.fsAt[RootPath] # "file"
          /\ lastCall.fsAt[ServerPath] \in {"dir", "other"}) =>
         lastCall.required = <<>>

\* C10 amended: an entry of the wrong type at a schema path is skipped like a
\* missing one and never raises: it is never required, and the fall-through
\* is as stated whenever the loader's file-system calls succeed.  Among the
\* probed paths only the context path has an entry type that makes a call
\* throw, a directory; a call at whose context path there is no directory
\* can still throw, through a module it requires (a schema module the
\* policy selected, or the context module) or a failing file-system call.
C10_WrongTypeSkippedOtherThrowsRemain ==
  Called =>
    /\ (lastCall.thrownBy = "contextDir") =>
         (lastCall.fsAt[UserContextPath] = "dir" /\ LoaderCompleted)
    /\ (lastCall.fsAt[UserContextPath] = "dir" /\ ReachedContext) =>
         lastCall.thrownBy = "contextDir"
    /\ RootPath \in Range(lastCall.required) => lastCall.fsAt[RootPath] = "file"
    /\ ServerPath \in Range(lastCall.required) => lastCall.fsAt[ServerPath] = "file"
    /\ (Range(lastCall.required) \cap MatchingAtCall # {}) =>
         lastCall.fsAt[DirPath] = "dir"
    /\ lastCall.thrownBy = "schemaModule" =>
         /\ lastCall.required # <<>>
         /\ lastCall.required[Len(lastCall.required)] \in
              MatchingAtCall \cup {p \in {RootPath, ServerPath} : lastCall.fsAt[p] = "file"}
    /\ lastCall.thrownBy # "fsLoader" =>
         /\ lastCall.fsAt[DirPath] \in {"file", "other"} =>
              /\ Range(lastCall.required) \subseteq {RootPath, ServerPath}
              /\ lastCall.fsAt[RootPath] = "file" => lastCall.required = <<RootPath>>
         /\ (lastCall.fsAt[DirPath] # "dir"
               /\ lastCall.fsAt[RootPath] \in {"dir", "other"}) =>
              /\ RootPath \notin Range(lastCall.required)
              /\ lastCall.fsAt[ServerPath] = "file" =>
                   lastCall.required = <<ServerPath>>
    /\ (lastCall.fsAt[DirPath] # "dir" /\ lastCall.fsAt[RootPath] # "file"
          /\ lastCall.fsAt[ServerPath] \in {"dir", "other"}) =>
         /\ lastCall.required = <<>>
         /\ lastCall.thrownBy # "schemaModule"

\* a call that skipped server/schema as a file and schema.ts as a directory,
\* loaded server/schema.ts, and then threw, though the context path was
\* missing, on requiring the default context it had just written
C10_Witness ==
  /\ lastCall.outcome = "threw"
  /\ lastCall.thrownBy = "contextModule"
  /\ lastCall.fsAt[DirPath] = "file"
  /\ lastCall.fsAt[RootPath] = "dir"
  /\ lastCall.required = <<ServerPath>>
  /\ lastCall.fsAt[UserContextPath] = "false"
  /\ lastCall.wrote

\* C9: a call with a directory at the context path that gets as far as
\* looking at it fails on it, and a call that fails on it has already
\* required its schema modules: they are loaded, what they registered is in
\* the registry after everything registered before, and nothing of it is
\* taken back; the call has neither written the default context file nor
\* loaded a context module.
C9_FailureKeepsRegistrations ==
  Called =>
    /\ (lastCall.fsAt[UserContextPath] = "dir" /\ ReachedContext) =>
         lastCall.thrownBy = "contextDir"
    /\ lastCall.thrownBy = "contextDir" =>
         /\ lastCall.outcome = "threw"
         /\ \A p \in Range(lastCall.required) : p \in moduleCache
         /\ \A p \in lastCall.registering : Count(AddedByLoader, p) = 1
         /\ IsPrefix(lastCall.registryBefore, lastCall.registryAfterLoad)
         /\ IsPrefix(lastCall.registryAfterLoad, registry)
         /\ ~lastCall.wrote
         /\ cacheWrites = lastCall.writesBefore
         /\ ~lastCall.contextLoaded
         /\ moduleCache \ lastCall.cacheBefore \subseteq Range(lastCall.required)

\* a failed first call that evaluated two schema modules and left the
\* registrations of both behind
C9_Witness ==
  /\ lastCall.outcome = "threw"
  /\ lastCall.thrownBy = "contextDir"
  /\ lastCall.n = 1
  /\ Len(lastCall.required) = 2
  /\ Cardinality(lastCall.registering) = 2
  /\ Len(registry) = 2

\* C2 as stated: a call that finds a directory at the context path fails
\* with the thrown configuration error and returns no app, so no app, and
\* hence no startServer, schema build, server or listen, ever belongs to
\* such a call.
C2_ContextDirectoryThrows ==
  /\ (Called /\ lastCall.fsAt[UserContextPath] = "dir") =>
       /\ lastCall.outcome = "threw"
       /\ lastCall.thrownBy = "contextDir"
       /\ lastCall.contextModulePath = ""
       /\ \A i \in DOMAIN apps : apps[i].call # lastCall.n
       /\ (lastStart.n > 0 => apps[lastStart.app].call # lastCall.n)
  /\ \A i \in DOMAIN apps : apps[i].fsAtCreate[UserContextPath] # "dir"
  /\ Len(apps) <= calls
  /\ (lastStart.n > 0 =>
        /\ lastStart.app \in DOMAIN apps
        /\ apps[lastStart.app].fsAtCreate[UserContextPath] # "dir")

\* C2 amended: a call made while the context path is a directory throws and
\* returns no app, so no app, and hence no startServer, schema build, server
\* or listen, ever belongs to such a call; what it throws is the
\* configuration error unless an earlier step of the call has thrown
\* already: a file-system call of the loader or the probe of the context
\* path failing, or a schema module throwing while being evaluated.
C2_ContextDirectoryNoApp ==
  /\ (Called /\ lastCall.fsAt[UserContextPath] = "dir") =>
       /\ lastCall.outcome = "threw"
       /\ lastCall.thrownBy \in {"fsLoader", "schemaModule", "fsContext", "contextDir"}
       /\ (lastCall.thrownBy = "schemaModule" =>
             lastCall.required[Len(lastCall.required)] \notin moduleCache)
       /\ ~lastCall.wrote
       /\ lastCall.contextModulePath = ""
       /\ \A i \in DOMAIN apps : apps[i].call # lastCall.n
       /\ (lastStart.n > 0 => apps[lastStart.app].call # lastCall.n)
  /\ \A i \in DOMAIN apps : apps[i].fsAtCreate[UserContextPath] # "dir"
  /\ Len(apps) <= calls
  /\ (lastStart.n > 0 =>
        /\ lastStart.app \in DOMAIN apps
        /\ apps[lastStart.app].fsAtCreate[UserContextPath] # "dir")

\* a second call that threw the configuration error after its schema module
\* had been evaluated, the first call having ended with that module's
\* exception
C2_Witness ==
  /\ lastCall.n = 2
  /\ lastCall.outcome = "threw"
  /\ lastCall.thrownBy = "contextDir"
  /\ lastCall.required = <<RootPath>>
  /\ lastCall.cacheBefore = {}
  /\ apps = <<>>

\* C3 as stated: the default context file is written exactly when nothing
\* exists at the user context path.
C3_WriteIffNothingExists ==
  Called => (lastCall.wrote <=> lastCall.fsAt[UserContextPath] = "false")

\* C3 amended: a call in which nothing throws before the write is done (no
\* file-system call fails, no schema module throws) writes the default
\* context file exactly when the user context path is neither a file nor a
\* directory (missing, or an entry of another type); a call that throws
\* earlier writes nothing.  With a user file nothing is written and the
\* module is the user's; otherwise the file is written on this call again,
\* it imports the generated client package, and the module is the cache
\* file.
C3_WriteUnlessUserContext ==
  Called =>
    LET k == lastCall.fsAt[UserContextPath]
    IN /\ lastCall.wrote <=>
            (ReachedContext /\ k \notin {"file", "dir"} /\ lastCall.thrownBy # "fsWrite")
       /\ (cacheWrites # lastCall.writesBefore) <=> lastCall.wrote
       /\ (ReachedContext /\ k = "file") =>
            /\ lastCall.contextModulePath = UserContextPath
            /\ cacheWrites = lastCall.writesBefore
       /\ lastCall.wrote =>
            /\ cacheWrites = lastCall.writesBefore + 1
            /\ Len(cacheFile) = 1
            /\ cacheFile[1].importFrom = PhotonPath
            /\ lastCall.contextModulePath = CachePath

\* the file written a second time, by a call that found an entry that is
\* neither file nor directory at the user context path
C3_Witness ==
  /\ lastCall.n = 2
  /\ lastCall.outcome = "returned"
  /\ lastCall.fsAt[UserContextPath] = "other"
  /\ lastCall.wrote
  /\ cacheWrites = 2

\* C7 as stated: the registry a schema build reads is exactly the registry the
\* createApp call of that app left behind (stated here for the runs in which
\* no type builder is called from outside the loaded modules).
C7_RegistryExactlyAsLoaded ==
  (lastStart.n > 0 /\ directs = 0) =>
    lastStart.build.types = apps[lastStart.app].registryAtReturn

\* C7 amended: a schema build reads a registry that begins with everything
\* registered when the createApp call of its app returned (a later createApp
\* call that evaluates a module calling a type builder, or a direct call of
\* a type builder, may have appended more), and
\* neither startServer nor its listen callback changes the registry or the
\* set of loaded modules.
C7_BuildAfterLoading ==
  /\ [](lastStart.n > 0 =>
          /\ lastStart.app \in DOMAIN apps
          /\ apps[lastStart.app].call <= calls
          /\ IsPrefix(apps[lastStart.app].registryAtReturn, lastStart.build.types)
          /\ IsPrefix(lastStart.build.types, registry))
  /\ [][(starts' # starts \/ pending' # pending) =>
          (registry' = registry /\ moduleCache' = moduleCache)]_vars

\* a build that read more than its own createApp call had loaded
C7_Witness ==
  /\ lastStart.n > 0
  /\ apps[lastStart.app].registryAtReturn # <<>>
  /\ Len(lastStart.build.types) > Len(apps[lastStart.app].registryAtReturn)

\* C8 as stated: the flags handed to the schema build are those the
\* environment determines when startServer runs.
C8_FlagsFromEnvAtStart ==
  lastStart.n > 0 =>
    /\ lastStart.build.shouldGenerateArtifacts = ShouldGenerateArtifacts(lastStart.envAt)
    /\ lastStart.build.shouldExitAfterGenerateArtifacts
         = ShouldExitAfterGenerateArtifacts(lastStart.envAt)

\* C8 amended: the flags handed to the schema build (and to the plugin) are
\* those the environment determined when createApp ran; a later change of the
\* environment is not reflected.
C8_FlagsFromEnvAtCreate ==
  lastStart.n > 0 =>
    LET e == apps[lastStart.app].envAtCreate
    IN /\ lastStart.build.shouldGenerateArtifacts = ShouldGenerateArtifacts(e)
       /\ lastStart.build.pluginShouldGenerateArtifacts = ShouldGenerateArtifacts(e)
       /\ lastStart.build.shouldExitAfterGenerateArtifacts
            = ShouldExitAfterGenerateArtifacts(e)

\* a build whose generate flag differs from what the environment says at
\* startServer time
C8_Witness ==
  /\ lastStart.n > 0
  /\ lastStart.envAt # apps[lastStart.app].envAtCreate
  /\ lastStart.build.shouldGenerateArtifacts # ShouldGenerateArtifacts(lastStart.envAt)

\* the default the claim names: on when the mode is unset or 'development'
DevelopmentLike(mode) == mode = Undefined \/ mode = "development"

\* 'true' is true, 'false' is false, anything else is the default
TriState(v, default) ==
  IF v = "true" THEN TRUE ELSE IF v = "false" THEN FALSE ELSE default

\* C5 as stated: each of the two flags is a three-valued override that falls
\* back to the environment-mode default (on when NODE_ENV is unset or
\* 'development').
C5_BothFlagsTriState ==
  \A i \in DOMAIN apps :
    LET e == apps[i].envAtCreate
    IN /\ apps[i].shouldGenerateArtifacts
            = TriState(e["PUMPKINS_SHOULD_GENERATE_ARTIFACTS"], DevelopmentLike(e["NODE_ENV"]))
       /\ apps[i].shouldExitAfterGenerateArtifacts
            = TriState(e["PUMPKINS_SHOULD_EXIT_AFTER_GENERATE_ARTIFACTS"],
                       DevelopmentLike(e["NODE_ENV"]))

\* C5 amended: the generate flag is a three-valued override whose default is
\* on when NODE_ENV is unset, empty or 'development' and off otherwise; the
\* exit flag is true exactly when its variable is 'true', whatever the mode.
C5_GenerateTriStateExitTwoState ==
  \A i \in DOMAIN apps :
    LET e == apps[i].envAtCreate
        m == e["NODE_ENV"]
    IN /\ apps[i].shouldGenerateArtifacts
            = TriState(e["PUMPKINS_SHOULD_GENERATE_ARTIFACTS"],
                       m = Undefined \/ m = "" \/ m = "development")
       /\ apps[i].shouldExitAfterGenerateArtifacts
            = (e["PUMPKINS_SHOULD_EXIT_AFTER_GENERATE_ARTIFACTS"] = "true")

\* an app created in production mode with an unrecognised generate value and
\* the exit variable unset: generation off, exit off
C5_Witness ==
  \E i \in DOMAIN apps :
    /\ apps[i].envAtCreate["PUMPKINS_SHOULD_GENERATE_ARTIFACTS"] = "1"
    /\ apps[i].envAtCreate["NODE_ENV"] = "production"
    /\ apps[i].envAtCreate["PUMPKINS_SHOULD_EXIT_AFTER_GENERATE_ARTIFACTS"] = Undefined
    /\ ~apps[i].shouldGenerateArtifacts
    /\ ~apps[i].shouldExitAfterGenerateArtifacts

\* the value the claim expects for an option: the caller's unless the caller
\* left it out or passed undefined, then the default
Effective(config, k) ==
  IF k \in DOMAIN config /\ config[k] # Undefined THEN config[k]
  ELSE IF k = "port" THEN "4000"
  ELSE IF k = "startMessage" THEN "default"
  ELSE "true"

\* C4: the merged configuration has the caller's value for every option the
\* caller set and the default for every option left out or undefined; the
\* listen is requested on the effective port and, once the server listens,
\* the effective start message is called with that same port and logged.
C4_UnsetFallsBackToDefault ==
  /\ lastStart.n > 0 =>
       /\ \A k \in OptionKeys : lastStart.merged[k] = Effective(lastStart.config, k)
       /\ lastStart.listenPort = Effective(lastStart.config, "port")
       /\ lastStart.playground = Effective(lastStart.config, "playground")
       /\ lastStart.introspection = Effective(lastStart.config, "introspection")
  /\ (lastListen.n > 0 /\ lastListen.outcome # "EADDRINUSE") =>
       /\ lastListen.outcome = "listening"
       /\ lastListen.port = Effective(lastListen.config, "port")
       /\ lastListen.logged =
            CallStartMessage(Effective(lastListen.config, "startMessage"),
                             Effective(lastListen.config, "port"))
       /\ console # <<>>
       /\ console[Len(console)] = lastListen.logged
====
